---- MODULE Spec2Model ----
(***************************************************************************)
(* Model of the frame pipeline of Apiquet/utils.                           *)
(*                                                                         *)
(*   Spec        src/frame_manager/frame_manager.py (main, extract_gif,    *)
(*               extract_video): one run of the driver, one action per     *)
(*               stage or loop iteration.                                  *)
(*   SpecOld     src/gif_maker/frame_manager.py, the earlier driver.       *)
(*   SpecDrivers one run of either driver.                                 *)
(*   SpecSplit   src/gif_maker/gif_maker.py, main on a directory of images *)
(*               without -r: the list is split into nb_gif gifs.           *)
(*   SpecVideoToGif  the same main on a gif or video file, without -r.     *)
(*   SpecBinary      folder_to_binary.py on a folder, then on its .bin.    *)
(*   SpecTransform   frame_manager.py with -r, -l, -t, -g, on sources long  *)
(*                   enough to pass the overlay cutoff.                    *)
(*   SpecConcat      video_manager.py: the videos written one after another. *)
(*   SpecRuns        frame_manager.py run again and again in one input     *)
(*                   directory, tmp_images/ being what the last run left.  *)
(*   SpecTerminates  frame_manager.py with any -s / -d, and video_manager.py, *)
(*                   under weak fairness of the next step.                 *)
(*   SpecBadSkip     the runs of Spec with skip <= 0.                      *)
(*                                                                         *)
(* Frame contents are abstracted to the identity of the frame: the j-th    *)
(* decoded frame of the container (or the image at sorted position j of a  *)
(* directory) is [gen |-> "cur", frame |-> j]; a file left in tmp_images/  *)
(* by an earlier run is [gen |-> "old", frame |-> j].                      *)
(***************************************************************************)
EXTENDS Integers, Sequences, FiniteSets, TLC

\* ---------------------------------------------------------------- bounds
MaxFrames == 3      \* frames of a container / files of a directory: 0..MaxFrames
MaxIdx == 3         \* start_idx, end_idx: 0..MaxIdx
MaxSkip == 2        \* skip: 1..MaxSkip
MaxImgs == 4        \* gif_maker.py: files of the directory: 0..MaxImgs
MaxGifs == 6        \* gif_maker.py: nb_gif: 1..MaxGifs
MaxFiles == 2       \* folder_to_binary.py: files of the folder: 0..MaxFiles
MaxBytes == 2       \* folder_to_binary.py: bytes of a file: 0..MaxBytes
MaxVideos == 2      \* video_manager.py: input videos: 1..MaxVideos
MaxRuns == 2        \* runs of frame_manager.py, one after the other: 1..MaxRuns

None == "None"

Kinds == {"gif", "video", "dir", "missing"}
\* -e: the default ".*", and two explicit extensions
Extensions == {".*", ".png", ".jpg"}
\* what a file of the input directory is: an image, or a file cv2.imread cannot read
FileExts == {"png", "txt"}
\* -o: not given, the input directory itself, another directory
OutputPaths == {None, "in", "out"}
\* -a img,times: not given, or given with the number of times
AddImages == {[given |-> FALSE, times |-> 0], [given |-> TRUE, times |-> 0],
              [given |-> TRUE, times |-> 2]}

VARIABLES
    run,                \* the number of the run in the input directory (1..)
    program,            \* the script that is run
    args,               \* the parsed command line and the source it names
    pc,                 \* the stage of the driver
    err,                \* the exception that ended the run ("" if none)
    errStage,           \* the stage that raised it
    cacheExists,        \* tmp_images/ exists
    cache,              \* tmp_images/: frame index -> content of frame_<index>.png
    srcImages,          \* input directory: sorted positions (1..) of the files still there
    inputDirExists,     \* the input directory exists
    output,             \* the animations written: a set of [where, frames]
    index_used_for_extraction,
    images_directory,   \* "in" or "tmp"
    i,                  \* loop index of extract_gif / extract_video
    success,            \* extract_video: result of the last read()
    image,              \* extract_video: frame returned by the last successful read()
    nread,              \* extract_video: frames consumed from the capture so far
    saved,              \* history: indices written to the cache by this run
    number_of_frames,   \* value returned by extract_gif / extract_video
    images_list_path,   \* Reading: the sorted, filtered list of files
    cv2_images,         \* Transforming: frames accumulated for the encoder
    imgs,               \* gif_maker.py: the sorted list of images
    chunks,             \* gif_maker.py: np.array_split(imgs, nb_gif)
    gifs,               \* gif_maker.py: the gifs written, gif_<x - 1>_ at place x
    steps,              \* history: the transform steps run, [frame, step], in order
    shapes,             \* the [h, w] of each element of cv2_images
    img_shape,          \* [h, w] taken after the loop (img_height, img_width)
    files_path,         \* folder_to_binary.py: the files still to pack, in glob order
    binary,             \* folder_to_binary.py: the bytes of the .bin
    elements,           \* folder_to_binary.py: the non-empty pieces of the .bin
    element_name,       \* folder_to_binary.py: the last name read
    extracted,          \* folder_to_binary.py: the output folder, name -> content
    videos_path,        \* video_manager.py: the videos still to read, the open one first
    cap,                \* video_manager.py: frames read from the open capture
    out                 \* video_manager.py: the frames written, [video, frame]

vars == <<run, program, args, pc, err, errStage, cacheExists, cache, srcImages, inputDirExists,
          output, index_used_for_extraction, images_directory, i, success, image,
          nread, saved, number_of_frames, images_list_path, cv2_images,
          imgs, chunks, gifs,
          steps, shapes, img_shape, files_path, binary, elements, element_name,
          extracted, videos_path, cap, out>>

splitVars == <<imgs, chunks, gifs>>
xformVars == <<steps, shapes, img_shape>>
binVars == <<files_path, binary, elements, element_name, extracted>>
concatVars == <<videos_path, cap, out>>
otherVars == <<splitVars, binVars, concatVars>>

\* the variables of the transform loop, of folder_to_binary.py and of
\* video_manager.py before these run
XformIdle ==
    /\ steps = <<>>
    /\ shapes = <<>>
    /\ img_shape = [h |-> 0, w |-> 0]

BinIdle ==
    /\ files_path = <<>>
    /\ binary = <<>>
    /\ elements = <<>>
    /\ element_name = <<>>
    /\ extracted = {}

ConcatIdle ==
    /\ videos_path = <<>>
    /\ cap = 0
    /\ out = <<>>

\* ---------------------------------------------------------------- helpers
Cur(j) == [gen |-> "cur", frame |-> j]
Old(j) == [gen |-> "old", frame |-> j]
EndImage == [gen |-> "end", frame |-> 0]

RECURSIVE SortedSeq(_)
\* sorted(...) of a set of integers: ascending sequence
SortedSeq(S) ==
    IF S = {} THEN <<>>
    ELSE LET m == CHOOSE x \in S : \A y \in S : x <= y
         IN <<m>> \o SortedSeq(S \ {m})

\* i > end_idx, end_idx being float_info.max when -d is not given
GtEnd(k) == args.end_given /\ k > args.end_idx

\* Python's a % b for b # 0: the result has the sign of b
PyMod(a, b) == IF b > 0 THEN a % b ELSE 0 - ((0 - a) % (0 - b))

\* glob pattern '/*' + extension against a file of extension e
Matches(extension, e) == extension = ".*" \/ extension = "." \o e

\* list[start:end] for 0 <= start, 0 <= end (Python slice, end exclusive)
Slice(s, start, end) ==
    LET lo == IF start < Len(s) THEN start ELSE Len(s)
        hi == IF end < Len(s) THEN end ELSE Len(s)
    IN IF lo >= hi THEN <<>> ELSE SubSeq(s, lo + 1, hi)

\* ---------------------------------------------------------------- inputs
\* every sequence of file kinds of length 0..MaxFrames: a directory listing, sorted
Listings == UNION {[1..k -> FileExts] : k \in 0..MaxFrames}

Sources ==
    {[kind |-> k, n |-> n, files |-> <<>>] : k \in {"gif", "video"}, n \in 0..MaxFrames}
    \cup {[kind |-> "dir", n |-> Len(f), files |-> f] : f \in Listings}
    \cup {[kind |-> "missing", n |-> 0, files |-> <<>>]}

\* -s / -d: start_idx defaults to 0, end_idx to float_info.max (end_given = FALSE)
Ranges ==
    {[start_idx |-> s, end_given |-> TRUE, end_idx |-> e] :
        s \in 0..MaxIdx, e \in 0..MaxIdx}
    \cup {[start_idx |-> s, end_given |-> FALSE, end_idx |-> 0] : s \in 0..MaxIdx}

\* an index no run of the bounded model writes: a file an earlier, longer run left
FarIdx == MaxFrames + MaxIdx + 1

\* tmp_images/ before the run: absent, or left by an earlier run (-k, or an error)
StaleCaches == {<<>>, [k \in {0, FarIdx} |-> Old(k)]}

\* -s / -d with start_idx <= end_idx
ValidRanges == {x \in Ranges : x.end_given => x.start_idx <= x.end_idx}

\* the state main starts in, for a command line drawn from the given sets
\* -r, -t, -l, -g left at their defaults, and source images of one size
NoTransform ==
    [resize_fact |-> 1, overlap |-> FALSE, rotate_angle |-> 0, padding |-> FALSE,
     big |-> {}]

RunInitWith(srcs, ranges, skips, outs, adds, exts, keeps, stales, xfs) ==
    /\ program = "frame_manager/frame_manager.py"
    /\ \E src \in srcs, r \in ranges, skip \in skips, keep \in keeps, o \in outs,
          a \in adds, e \in exts, xf \in xfs :
          args = [kind |-> src.kind, n |-> src.n, files |-> src.files,
                  skip |-> skip, start_idx |-> r.start_idx,
                  end_given |-> r.end_given, end_idx |-> r.end_idx,
                  keep_extracted_imgs |-> keep, output_path |-> o,
                  add_image |-> a, extension |-> e,
                  resize_fact |-> xf.resize_fact, overlap |-> xf.overlap,
                  rotate_angle |-> xf.rotate_angle, padding |-> xf.padding,
                  big |-> xf.big]
    /\ \E st \in stales :
          /\ cache = st
          /\ cacheExists = (st # <<>>)
    /\ srcImages = IF args.kind = "dir" THEN 1..args.n ELSE {}
    /\ inputDirExists = TRUE
    /\ pc = "Idle"
    /\ err = ""
    /\ errStage = ""
    /\ output = {}
    /\ index_used_for_extraction = FALSE
    /\ images_directory = "in"
    /\ i = 0
    /\ success = FALSE
    /\ image = 0
    /\ nread = 0
    /\ saved = {}
    /\ number_of_frames = 0
    /\ images_list_path = <<>>
    /\ cv2_images = <<>>
    /\ imgs = <<>>
    /\ chunks = <<>>
    /\ gifs = <<>>
    /\ run = 1
    /\ XformIdle
    /\ BinIdle
    /\ ConcatIdle

RunInit(srcs, ranges, skips, outs, adds, exts) ==
    RunInitWith(srcs, ranges, skips, outs, adds, exts, BOOLEAN, StaleCaches,
                {NoTransform})

\* a valid command line: skip >= 1, start_idx <= end_idx
Init == RunInit(Sources, ValidRanges, 1..MaxSkip, OutputPaths, AddImages, Extensions)

fsVars == <<cacheExists, cache, srcImages, inputDirExists, output>>
extractVars == <<i, success, image, nread, saved, number_of_frames>>

\* raise: the exception propagates out of main, nothing else runs
Raise(stage, what) ==
    /\ pc' = "Errored"
    /\ err' = what
    /\ errStage' = stage

NoError == UNCHANGED <<err, errStage>>

\* cache with frame_<k>.png (over)written with content c
WriteFrame(c, k, content) ==
    [x \in (DOMAIN c) \cup {k} |-> IF x = k THEN content ELSE c[x]]

\* ------------------------------------------------ main, lines 253-279: Idle
\* path.isfile(input_path): create tmp_images/ and enter the extraction
StartFile ==
    /\ pc = "Idle"
    /\ args.kind \in {"gif", "video"}
    /\ index_used_for_extraction' = TRUE
    /\ images_directory' = "tmp"
    /\ cacheExists' = TRUE
    /\ pc' = "Extracting"
    \* extract_gif: enumerate(range(n_frames)) starts at 0
    \* extract_video: first read(), i = -1
    /\ IF args.kind = "gif"
       THEN /\ i' = 0
            /\ UNCHANGED <<success, image, nread>>
       ELSE /\ i' = -1
            /\ success' = (args.n > 0)
            /\ image' = 0
            /\ nread' = IF args.n > 0 THEN 1 ELSE 0
    /\ NoError
    /\ UNCHANGED <<otherVars, xformVars, run, program, args, cache, srcImages, inputDirExists, output, saved,
                   number_of_frames, images_list_path, cv2_images>>

\* path.isdir(input_path): nothing to extract
StartDir ==
    /\ pc = "Idle"
    /\ args.kind = "dir"
    /\ pc' = "Reading"
    /\ NoError
    /\ UNCHANGED <<otherVars, xformVars, run, program, args, fsVars, extractVars, index_used_for_extraction,
                   images_directory, images_list_path, cv2_images>>

\* neither a file nor a directory
StartMissing ==
    /\ pc = "Idle"
    /\ args.kind = "missing"
    /\ Raise("Idle", "does not exist.")
    /\ UNCHANGED <<otherVars, xformVars, run, program, args, fsVars, extractVars, index_used_for_extraction,
                   images_directory, images_list_path, cv2_images>>

\* ------------------------------------------------ extract_gif, lines 67-76
\* one iteration of the for loop; i is the index of the iteration
ExtractGifStep ==
    /\ pc = "Extracting"
    /\ args.kind = "gif"
    /\ i < args.n
    /\ IF i < args.start_idx
       THEN \* continue
            /\ i' = i + 1
            /\ NoError
            /\ UNCHANGED <<pc, cache, saved, number_of_frames>>
       ELSE IF GtEnd(i)
       THEN \* break; return gif_object.n_frames
            /\ number_of_frames' = args.n
            /\ pc' = "Extracted"
            /\ NoError
            /\ UNCHANGED <<i, cache, saved>>
       ELSE IF args.skip = 0
       THEN \* seek(frame); i % 0 raises
            /\ Raise("Extracting", "ZeroDivisionError")
            /\ UNCHANGED <<i, cache, saved, number_of_frames>>
       ELSE \* seek(frame); save if i % skip == 0
            /\ IF PyMod(i, args.skip) = 0
               THEN /\ cache' = WriteFrame(cache, i, Cur(i))
                    /\ saved' = saved \cup {i}
               ELSE UNCHANGED <<cache, saved>>
            /\ i' = i + 1
            /\ NoError
            /\ UNCHANGED <<pc, number_of_frames>>
    /\ UNCHANGED <<otherVars, xformVars, run, program, args, cacheExists, srcImages, inputDirExists, output, success,
                   image, nread, index_used_for_extraction, images_directory,
                   images_list_path, cv2_images>>

\* the range is exhausted: return gif_object.n_frames
ExtractGifEnd ==
    /\ pc = "Extracting"
    /\ args.kind = "gif"
    /\ i >= args.n
    /\ number_of_frames' = args.n
    /\ pc' = "Extracted"
    /\ NoError
    /\ UNCHANGED <<otherVars, xformVars, run, program, args, fsVars, i, success, image, nread, saved,
                   index_used_for_extraction, images_directory, images_list_path,
                   cv2_images>>

\* extract_video with `i += 1` after the test of start_idx: `continue` then
\* comes back to the same i
ExtractVideoStepCountAfterTest ==
    /\ pc = "Extracting"
    /\ args.kind = "video"
    /\ success
    /\ IF i + 1 < args.start_idx
       THEN /\ NoError
            /\ UNCHANGED <<pc, i, cache, saved, success, image, nread, number_of_frames>>
       ELSE IF GtEnd(i + 1)
       THEN /\ i' = i + 1
            /\ number_of_frames' = i'
            /\ pc' = "Extracted"
            /\ NoError
            /\ UNCHANGED <<cache, saved, success, image, nread>>
       ELSE /\ i' = i + 1
            /\ IF args.skip # 0 /\ PyMod(i', args.skip) = 0
               THEN /\ cache' = WriteFrame(cache, i', Cur(image))
                    /\ saved' = saved \cup {i'}
               ELSE UNCHANGED <<cache, saved>>
            /\ success' = (nread < args.n)
            /\ image' = IF nread < args.n THEN nread ELSE image
            /\ nread' = IF nread < args.n THEN nread + 1 ELSE nread
            /\ NoError
            /\ UNCHANGED <<pc, number_of_frames>>
    /\ UNCHANGED <<otherVars, xformVars, run, program, args, cacheExists, srcImages,
                   inputDirExists, output, index_used_for_extraction,
                   images_directory, images_list_path, cv2_images>>

\* ---------------------------------------------- extract_video, lines 93-107
\* one iteration of the while loop
ExtractVideoStep ==
    /\ pc = "Extracting"
    /\ args.kind = "video"
    /\ success
    /\ i' = i + 1
    /\ IF i' < args.start_idx
       THEN \* continue: no read(), image and success stay
            /\ NoError
            /\ UNCHANGED <<pc, cache, saved, success, image, nread, number_of_frames>>
       ELSE IF GtEnd(i')
       THEN \* break; return i
            /\ number_of_frames' = i'
            /\ pc' = "Extracted"
            /\ NoError
            /\ UNCHANGED <<cache, saved, success, image, nread>>
       ELSE IF args.skip = 0
       THEN \* i % 0 raises
            /\ Raise("Extracting", "ZeroDivisionError")
            /\ UNCHANGED <<cache, saved, success, image, nread, number_of_frames>>
       ELSE /\ IF PyMod(i', args.skip) = 0
               THEN /\ cache' = WriteFrame(cache, i', Cur(image))
                    /\ saved' = saved \cup {i'}
               ELSE UNCHANGED <<cache, saved>>
            \* success, image = video_capture.read()
            /\ success' = (nread < args.n)
            /\ image' = IF nread < args.n THEN nread ELSE image
            /\ nread' = IF nread < args.n THEN nread + 1 ELSE nread
            /\ NoError
            /\ UNCHANGED <<pc, number_of_frames>>
    /\ UNCHANGED <<otherVars, xformVars, run, program, args, cacheExists, srcImages, inputDirExists, output,
                   index_used_for_extraction, images_directory, images_list_path,
                   cv2_images>>

\* while success fails: return i
ExtractVideoEnd ==
    /\ pc = "Extracting"
    /\ args.kind = "video"
    /\ ~success
    /\ number_of_frames' = i
    /\ pc' = "Extracted"
    /\ NoError
    /\ UNCHANGED <<otherVars, xformVars, run, program, args, fsVars, i, success, image, nread, saved,
                   index_used_for_extraction, images_directory, images_list_path,
                   cv2_images>>

\* ------------------------------------------------------ main, lines 276-277
CheckExtraction ==
    /\ pc = "Extracted"
    /\ IF number_of_frames = 0
       THEN Raise("Extracting", "Extraction error.")
       ELSE /\ pc' = "Reading"
            /\ NoError
    /\ UNCHANGED <<otherVars, xformVars, run, program, args, fsVars, extractVars, index_used_for_extraction,
                   images_directory, images_list_path, cv2_images>>

\* ------------------------------------------------------ main, lines 281-285
\* sorted(glob(images_directory + '/*' + extension)): the files of the directory
\* the pattern matches, by name. tmp_images/ holds frame_<index>.png files, the
\* input directory holds the source files (position p holds image p - 1).
Listing(dir, extension) ==
    IF dir = "tmp"
    THEN LET names == SortedSeq({k \in DOMAIN cache : Matches(extension, "png")})
         IN [x \in 1..Len(names) |->
                [idx |-> names[x], ext |-> "png", data |-> cache[names[x]]]]
    ELSE LET names == SortedSeq({p \in srcImages : Matches(extension, args.files[p])})
         IN [x \in 1..Len(names) |->
                [idx |-> names[x] - 1, ext |-> args.files[names[x]],
                 data |-> Cur(names[x] - 1)]]

ReadList ==
    /\ pc = "Reading"
    /\ LET listed == Listing(images_directory, args.extension)
       IN IF ~index_used_for_extraction /\ ~args.end_given
          THEN \* images_list_path[start_idx : float_info.max]: slice indices must
               \* be integers
               /\ Raise("Reading", "TypeError")
               /\ UNCHANGED images_list_path
          ELSE LET kept == IF index_used_for_extraction THEN listed
                           ELSE Slice(listed, args.start_idx, args.end_idx)
               IN /\ images_list_path' = kept
                  /\ IF Len(kept) = 0
                     THEN Raise("Reading", "Not file found")
                     ELSE /\ pc' = "Transforming"
                          /\ NoError
    /\ UNCHANGED <<otherVars, xformVars, run, program, args, fsVars, extractVars, index_used_for_extraction,
                   images_directory, cv2_images>>

\* ------------------------------------------------------ main, lines 296-312
\* one iteration of the for loop: imread, resize, cvtColor, append.
\* cv2.imread returns None for a file that is no image, and img.shape raises.
\* the frames with a position below this one get the overlay (line 302)
OverlayCutoff == 38

\* [h, w] of the source images: all alike, but for the files of a directory
\* named in args.big
SmallShape == [h |-> 1, w |-> 2]
BigShape == [h |-> 2, w |-> 3]
ImageShape(f) ==
    IF args.kind = "dir" /\ f.idx \in args.big THEN BigShape ELSE SmallShape

\* -g top,bottom,left,right,...
Padding == [top |-> 1, bottom |-> 1, left |-> 1, right |-> 1]

\* the shape after one step: resize multiplies both sides, the overlay is
\* pasted on the frame, a rotation by 90 degrees swaps the sides
\* (rotate_image: b_w, b_h), copyMakeBorder adds the borders
StepShape(sh, step) ==
    IF step = "resize"
    THEN [h |-> sh.h * args.resize_fact, w |-> sh.w * args.resize_fact]
    ELSE IF step = "overlay" THEN sh
    ELSE IF step = "rotate" THEN [h |-> sh.w, w |-> sh.h]
    ELSE [h |-> sh.h + Padding.top + Padding.bottom,
          w |-> sh.w + Padding.left + Padding.right]

RECURSIVE ApplySteps(_, _)
ApplySteps(sh, todo) ==
    IF todo = <<>> THEN sh
    ELSE ApplySteps(StepShape(sh, Head(todo)), Tail(todo))

\* the overlay test with the index of the file instead of the loop counter
OverlayEligibleByIndex(pos, f) == args.overlap /\ f.idx < OverlayCutoff

\* line 302: args.overlap is not None and i < 38, i counting the list read
OverlayEligible(pos, f) == args.overlap /\ pos < OverlayCutoff

\* the steps with the rotation before the overlay
FrameStepsRotateFirst(pos, f) ==
    <<"resize">>
        \o (IF args.rotate_angle # 0 THEN <<"rotate">> ELSE <<>>)
        \o (IF OverlayEligible(pos, f) THEN <<"overlay">> ELSE <<>>)
        \o (IF args.padding THEN <<"pad">> ELSE <<>>)

\* lines 298-309: the steps one iteration runs on the frame at position pos
FrameSteps(pos, f) ==
    <<"resize">>
        \o (IF OverlayEligible(pos, f) THEN <<"overlay">> ELSE <<>>)
        \o (IF args.rotate_angle # 0 THEN <<"rotate">> ELSE <<>>)
        \o (IF args.padding THEN <<"pad">> ELSE <<>>)

\* lines 296-310: one iteration of the loop
TransformStep ==
    /\ pc = "Transforming"
    /\ Len(cv2_images) < Len(images_list_path)
    /\ LET pos == Len(cv2_images)
           f == images_list_path[pos + 1]
           todo == FrameSteps(pos, f)
       IN IF f.ext = "txt"
          THEN /\ Raise("Transforming", "imread")
               /\ UNCHANGED <<cv2_images, steps, shapes>>
          ELSE /\ cv2_images' = Append(cv2_images, f.data)
               /\ steps' = steps \o [x \in 1..Len(todo) |->
                                        [frame |-> pos, step |-> todo[x]]]
               /\ shapes' = Append(shapes, ApplySteps(ImageShape(f), todo))
               /\ UNCHANGED pc
               /\ NoError
    /\ UNCHANGED <<otherVars, img_shape, run, program, args, fsVars, extractVars,
                   index_used_for_extraction, images_directory, images_list_path>>

\* line 312: the loop is over, img_height, img_width = rgb_img.shape, the
\* frame of the last iteration
TransformEnd ==
    /\ pc = "Transforming"
    /\ Len(cv2_images) = Len(images_list_path)
    /\ img_shape' = shapes[Len(shapes)]
    /\ pc' = IF args.add_image.given THEN "TailAppend" ELSE "Encoding"
    /\ NoError
    /\ UNCHANGED <<otherVars, steps, shapes, run, program, args, fsVars, extractVars,
                   index_used_for_extraction, images_directory, images_list_path,
                   cv2_images>>

\* ------------------------------------------------------ main, lines 315-322
\* the end image is resized to (img_width, img_height) and appended times times
TailAppend ==
    /\ pc = "TailAppend"
    /\ cv2_images' = cv2_images \o [x \in 1..args.add_image.times |-> EndImage]
    /\ shapes' = shapes \o [x \in 1..args.add_image.times |-> img_shape]
    /\ pc' = "Encoding"
    /\ NoError
    /\ UNCHANGED <<otherVars, steps, img_shape, run, program, args, fsVars, extractVars,
                   index_used_for_extraction, images_directory, images_list_path>>

\* ------------------------------------------------------ main, lines 326-349
\* Encode as it would be with the cleanup in a finally clause
EncodeThenCleanupOnError ==
    /\ pc = "Encoding"
    /\ IF args.output_path = None
       THEN /\ Raise("Encoding", "TypeError")
            /\ cache' = <<>>
            /\ cacheExists' = FALSE
            /\ UNCHANGED output
       ELSE /\ output' = output \cup {[where |-> args.output_path, frames |-> cv2_images]}
            /\ pc' = "Cleanup"
            /\ NoError
            /\ UNCHANGED <<cache, cacheExists>>
    /\ UNCHANGED <<otherVars, xformVars, run, program, args, srcImages, inputDirExists, extractVars,
                   index_used_for_extraction, images_directory, images_list_path,
                   cv2_images>>

\* output_result_path = args.output_path + '/' + args.result_name is evaluated
\* before the test for None: None + str raises TypeError.
Encode ==
    /\ pc = "Encoding"
    /\ IF args.output_path = None
       THEN /\ Raise("Encoding", "TypeError")
            /\ UNCHANGED output
       ELSE /\ output' = output \cup {[where |-> args.output_path, frames |-> cv2_images]}
            /\ pc' = "Cleanup"
            /\ NoError
    /\ UNCHANGED <<otherVars, xformVars, run, program, args, cacheExists, cache, srcImages, inputDirExists, extractVars,
                   index_used_for_extraction, images_directory, images_list_path,
                   cv2_images>>

\* ------------------------------------------------------ main, lines 351-353
\* [remove(img) for img in glob(dir + '/*')]; rmdir(dir)
RemoveDirectory(dir) ==
    IF dir = "tmp"
    THEN /\ cache' = <<>>
         /\ cacheExists' = FALSE
         /\ UNCHANGED <<srcImages, inputDirExists, output>>
    ELSE /\ srcImages' = {}
         /\ output' = {o \in output : o.where # "in"}
         /\ inputDirExists' = FALSE
         /\ UNCHANGED <<cache, cacheExists>>

\* Cleanup with the keep flag read the wrong way round
CleanupKeepInverted ==
    /\ pc = "Cleanup"
    /\ IF args.keep_extracted_imgs /\ args.kind \in {"gif", "video"}
       THEN RemoveDirectory(images_directory)
       ELSE UNCHANGED fsVars
    /\ pc' = "Done"
    /\ NoError
    /\ UNCHANGED <<otherVars, xformVars, run, program, args, extractVars, index_used_for_extraction, images_directory,
                   images_list_path, cv2_images>>

Cleanup ==
    /\ pc = "Cleanup"
    /\ IF ~args.keep_extracted_imgs /\ args.kind \in {"gif", "video"}
       THEN RemoveDirectory(images_directory)
       ELSE UNCHANGED fsVars
    /\ pc' = "Done"
    /\ NoError
    /\ UNCHANGED <<otherVars, xformVars, run, program, args, extractVars, index_used_for_extraction, images_directory,
                   images_list_path, cv2_images>>

Next ==
    \/ StartFile
    \/ StartDir
    \/ StartMissing
    \/ ExtractGifStep
    \/ ExtractGifEnd
    \/ ExtractVideoStep
    \/ ExtractVideoEnd
    \/ CheckExtraction
    \/ ReadList
    \/ TransformStep
    \/ TransformEnd
    \/ TailAppend
    \/ Encode
    \/ Cleanup

Spec == Init /\ [][Next]_vars

\* -p is read with type=int and never validated: the same runs with skip <= 0
BadSkips == {-1, 0}

BadSkipInit ==
    RunInit(Sources, ValidRanges, BadSkips, OutputPaths, AddImages, Extensions)

SpecBadSkip == BadSkipInit /\ [][Next]_vars

\* runs with the transform options, on sources short and longer than the cutoff
LongSource == OverlayCutoff + 2

TransformSources ==
    {[kind |-> "gif", n |-> n, files |-> <<>>] : n \in {2, LongSource}}
    \cup {[kind |-> "video", n |-> 2, files |-> <<>>],
          [kind |-> "missing", n |-> 0, files |-> <<>>]}
    \cup {[kind |-> "dir", n |-> n, files |-> [x \in 1..n |-> "png"]] :
             n \in {2, LongSource}}

TransformRanges ==
    {[start_idx |-> s, end_given |-> g, end_idx |-> LongSource - 1] :
        s \in {0, 1, OverlayCutoff}, g \in BOOLEAN}

TransformOptions ==
    {[resize_fact |-> 1, overlap |-> o, rotate_angle |-> t, padding |-> g, big |-> {}] :
        o \in BOOLEAN, t \in {0, 90}, g \in BOOLEAN}
    \cup {[resize_fact |-> 1, overlap |-> FALSE, rotate_angle |-> 0, padding |-> FALSE,
           big |-> {1}],
          [resize_fact |-> 2, overlap |-> TRUE, rotate_angle |-> 90, padding |-> TRUE,
           big |-> {0}]}

TransformInit ==
    RunInitWith(TransformSources, TransformRanges, 1..MaxSkip, {"out"}, AddImages,
                {".*"}, {FALSE}, {<<>>}, TransformOptions)

SpecTransform == TransformInit /\ [][Next]_vars

\* ------------------------------------ main called again in the same directory
RunsSources ==
    {[kind |-> "gif", n |-> n, files |-> <<>>] : n \in 1..2}
    \cup {[kind |-> "video", n |-> 1, files |-> <<>>],
          [kind |-> "dir", n |-> 1, files |-> <<"png">>],
          [kind |-> "missing", n |-> 0, files |-> <<>>]}

RunsRanges ==
    {[start_idx |-> s, end_given |-> FALSE, end_idx |-> 0] : s \in 0..1}

RunsAddImages == {[given |-> FALSE, times |-> 0], [given |-> TRUE, times |-> 2]}

\* the command lines of the runs
RunsArgs ==
    {[kind |-> src.kind, n |-> src.n, files |-> src.files, skip |-> 1,
      start_idx |-> r.start_idx, end_given |-> r.end_given, end_idx |-> r.end_idx,
      keep_extracted_imgs |-> keep, output_path |-> o,
      add_image |-> a, extension |-> ".*",
      resize_fact |-> 1, overlap |-> FALSE, rotate_angle |-> 0, padding |-> FALSE,
      big |-> {}] :
        src \in RunsSources, r \in RunsRanges, keep \in BOOLEAN, o \in {None, "out"},
        a \in RunsAddImages}

\* the first run starts without a tmp_images/
RunsInit ==
    RunInitWith(RunsSources, RunsRanges, {1}, {None, "out"}, RunsAddImages, {".*"},
                BOOLEAN, {<<>>}, {NoTransform})

\* the run is over (Done, or Errored by an uncaught exception) and main is
\* called again: the files on disk stay, tmp_images/ with the frames the
\* earlier runs left in it; lines 252-257 start the new run
NewRun ==
    /\ pc \in {"Done", "Errored"}
    /\ run < MaxRuns
    /\ run' = run + 1
    /\ args' \in RunsArgs
    /\ cache' = [k \in DOMAIN cache |-> Old(cache[k].frame)]
    /\ srcImages' = IF args'.kind = "dir" THEN 1..args'.n ELSE {}
    /\ inputDirExists' = TRUE
    /\ pc' = "Idle"
    /\ err' = ""
    /\ errStage' = ""
    /\ index_used_for_extraction' = FALSE
    /\ images_directory' = "in"
    /\ i' = 0
    /\ success' = FALSE
    /\ image' = 0
    /\ nread' = 0
    /\ saved' = {}
    /\ number_of_frames' = 0
    /\ images_list_path' = <<>>
    /\ cv2_images' = <<>>
    /\ steps' = <<>>
    /\ shapes' = <<>>
    /\ img_shape' = [h |-> 0, w |-> 0]
    /\ UNCHANGED <<otherVars, program, cacheExists, output>>

RunsNext ==
    \/ Next
    \/ NewRun

SpecRuns == RunsInit /\ [][RunsNext]_vars

\* ===================================== src/gif_maker/frame_manager.py: main
\* -o defaults to "" (None here), -e is not read, there is no -s / -d
OldSources ==
    {[kind |-> k, n |-> n, files |-> <<>>] : k \in {"gif", "video"}, n \in 0..MaxFrames}
    \cup {[kind |-> "dir", n |-> Len(f), files |-> f] : f \in Listings}
    \cup {[kind |-> "missing", n |-> 0, files |-> <<>>]}

OldInit ==
    /\ program = "gif_maker/frame_manager.py"
    /\ \E src \in OldSources, skip \in 1..MaxSkip, keep \in BOOLEAN,
          o \in OutputPaths, a \in AddImages :
          args = [kind |-> src.kind, n |-> src.n, files |-> src.files,
                  skip |-> skip, keep_extracted_imgs |-> keep, output_path |-> o,
                  add_image |-> a]
    /\ \E st \in StaleCaches :
          /\ cache = st
          /\ cacheExists = (st # <<>>)
    /\ srcImages = IF args.kind = "dir" THEN 1..args.n ELSE {}
    /\ inputDirExists = TRUE
    /\ pc = "Idle"
    /\ err = ""
    /\ errStage = ""
    /\ output = {}
    /\ index_used_for_extraction = FALSE
    /\ images_directory = "in"
    /\ i = 0
    /\ success = FALSE
    /\ image = 0
    /\ nread = 0
    /\ saved = {}
    /\ number_of_frames = 0
    /\ images_list_path = <<>>
    /\ cv2_images = <<>>
    /\ imgs = <<>>
    /\ chunks = <<>>
    /\ gifs = <<>>
    /\ run = 1
    /\ XformIdle
    /\ BinIdle
    /\ ConcatIdle

\* lines 186-195: os.path.isfile(input_path)
OldStartFile ==
    /\ pc = "Idle"
    /\ args.kind \in {"gif", "video"}
    /\ images_directory' = "tmp"
    /\ cacheExists' = TRUE
    /\ index_used_for_extraction' = TRUE
    /\ pc' = "Extracting"
    /\ i' = 0
    /\ IF args.kind = "gif"
       THEN UNCHANGED <<success, image, nread>>
       ELSE /\ success' = (args.n > 0)
            /\ image' = 0
            /\ nread' = IF args.n > 0 THEN 1 ELSE 0
    /\ NoError
    /\ UNCHANGED <<otherVars, xformVars, run, program, args, cache, srcImages, inputDirExists, output, saved,
                   number_of_frames, images_list_path, cv2_images>>

\* line 186 is false: the input path is taken as a directory of images, with
\* no test that it exists (a path that does not exist lists no file)
OldStartDir ==
    /\ pc = "Idle"
    /\ args.kind \in {"dir", "missing"}
    /\ pc' = "Reading"
    /\ NoError
    /\ UNCHANGED <<otherVars, xformVars, run, program, args, fsVars, extractVars, index_used_for_extraction,
                   images_directory, images_list_path, cv2_images>>

\* extract_gif, lines 87-92: one iteration, or the end of the loop
OldExtractGifStep ==
    /\ pc = "Extracting"
    /\ args.kind = "gif"
    /\ IF i < args.n
       THEN /\ IF i % args.skip = 0
               THEN /\ cache' = WriteFrame(cache, i, Cur(i))
                    /\ saved' = saved \cup {i}
               ELSE UNCHANGED <<cache, saved>>
            /\ i' = i + 1
            /\ UNCHANGED pc
       ELSE /\ pc' = "Reading"
            /\ UNCHANGED <<i, cache, saved>>
    /\ NoError
    /\ UNCHANGED <<otherVars, xformVars, run, program, args, cacheExists, srcImages, inputDirExists, output,
                   success, image, nread, number_of_frames,
                   index_used_for_extraction, images_directory, images_list_path,
                   cv2_images>>

\* extract_video, lines 95-105: one iteration, or the end of the loop
OldExtractVideoStep ==
    /\ pc = "Extracting"
    /\ args.kind = "video"
    /\ IF success
       THEN /\ IF i % args.skip = 0
               THEN /\ cache' = WriteFrame(cache, i, Cur(image))
                    /\ saved' = saved \cup {i}
               ELSE UNCHANGED <<cache, saved>>
            /\ success' = (nread < args.n)
            /\ image' = IF nread < args.n THEN nread ELSE image
            /\ nread' = IF nread < args.n THEN nread + 1 ELSE nread
            /\ i' = i + 1
            /\ UNCHANGED pc
       ELSE /\ pc' = "Reading"
            /\ UNCHANGED <<i, cache, saved, success, image, nread>>
    /\ NoError
    /\ UNCHANGED <<otherVars, xformVars, run, program, args, cacheExists, srcImages, inputDirExists, output,
                   number_of_frames, index_used_for_extraction, images_directory,
                   images_list_path, cv2_images>>

\* line 197: sorted(glob(images_directory + '/*')), every entry of the directory;
\* in the input directory that includes a tmp_images/ an earlier run left
\* (listed after the images: "tmp_images" sorts after names made of digits)
OldListing(dir) ==
    IF dir = "tmp"
    THEN Listing("tmp", ".*")
    ELSE Listing("in", ".*")
         \o (IF cacheExists
             THEN <<[idx |-> args.n, ext |-> "txt", data |-> Old(0)]>>
             ELSE <<>>)

OldReadList ==
    /\ pc = "Reading"
    /\ images_list_path' = OldListing(images_directory)
    /\ pc' = "Transforming"
    /\ NoError
    /\ UNCHANGED <<otherVars, xformVars, run, program, args, fsVars, extractVars, index_used_for_extraction,
                   images_directory, cv2_images>>

\* lines 201-206: imread, cvtColor (raises on the None imread gives for a file
\* that is no image); after the last frame, on to the tail image or the encoder
OldTransformStep ==
    /\ pc = "Transforming"
    /\ IF Len(cv2_images) < Len(images_list_path)
       THEN LET f == images_list_path[Len(cv2_images) + 1]
            IN IF f.ext = "txt"
               THEN /\ Raise("Transforming", "imread")
                    /\ UNCHANGED cv2_images
               ELSE /\ cv2_images' = Append(cv2_images, f.data)
                    /\ UNCHANGED pc
                    /\ NoError
       ELSE /\ pc' = IF args.add_image.given THEN "TailAppend" ELSE "Encoding"
            /\ NoError
            /\ UNCHANGED cv2_images
    /\ UNCHANGED <<otherVars, xformVars, run, program, args, fsVars, extractVars, index_used_for_extraction,
                   images_directory, images_list_path>>

\* lines 208-216: img is unbound when no image was read
OldTailAppend ==
    /\ pc = "TailAppend"
    /\ IF Len(images_list_path) = 0
       THEN /\ Raise("TailAppend", "NameError")
            /\ UNCHANGED cv2_images
       ELSE /\ cv2_images' = cv2_images \o [x \in 1..args.add_image.times |-> EndImage]
            /\ pc' = "Encoding"
            /\ NoError
    /\ UNCHANGED <<otherVars, xformVars, run, program, args, fsVars, extractVars, index_used_for_extraction,
                   images_directory, images_list_path>>

\* lines 220-238: without -o the gif goes to the input directory
OldEncode ==
    /\ pc = "Encoding"
    /\ output' = output \cup
           {[where |-> IF args.output_path = None THEN "in" ELSE args.output_path,
             frames |-> cv2_images]}
    /\ pc' = "Cleanup"
    /\ NoError
    /\ UNCHANGED <<otherVars, xformVars, run, program, args, cacheExists, cache, srcImages, inputDirExists,
                   extractVars, index_used_for_extraction, images_directory,
                   images_list_path, cv2_images>>

\* lines 240-242: no test of the kind of source
OldCleanup ==
    /\ pc = "Cleanup"
    /\ IF ~args.keep_extracted_imgs
       THEN RemoveDirectory(images_directory)
       ELSE UNCHANGED fsVars
    /\ pc' = "Done"
    /\ NoError
    /\ UNCHANGED <<otherVars, xformVars, run, program, args, extractVars, index_used_for_extraction,
                   images_directory, images_list_path, cv2_images>>

OldNext ==
    \/ OldStartFile
    \/ OldStartDir
    \/ OldExtractGifStep
    \/ OldExtractVideoStep
    \/ OldReadList
    \/ OldTransformStep
    \/ OldTailAppend
    \/ OldEncode
    \/ OldCleanup

SpecOld == OldInit /\ [][OldNext]_vars

\* one run of either driver
DriversInit == Init \/ OldInit

DriversNext ==
    \/ program = "frame_manager/frame_manager.py" /\ Next
    \/ program = "gif_maker/frame_manager.py" /\ OldNext

SpecDrivers == DriversInit /\ [][DriversNext]_vars

\* ============================================ src/gif_maker/gif_maker.py: main
driverVars == <<cacheExists, cache, srcImages, inputDirExists, output,
                index_used_for_extraction, images_directory, i, success, image,
                nread, saved, number_of_frames, images_list_path, cv2_images>>

\* a file of the directory: an image, or a gif an earlier run wrote there
SplitExts == {"png", "gif"}
SplitListings == UNION {[1..k -> SplitExts] : k \in 0..MaxImgs}

SplitInit ==
    /\ program = "gif_maker/gif_maker.py"
    /\ \E f \in SplitListings, n \in 1..MaxGifs, e \in {".*", ".png"} :
          args = [kind |-> "dir", n |-> Len(f), files |-> f, nb_gif |-> n,
                  extension |-> e]
    /\ pc = "Idle"
    /\ err = ""
    /\ errStage = ""
    /\ imgs = <<>>
    /\ chunks = <<>>
    /\ gifs = <<>>
    /\ run = 1
    /\ XformIdle
    /\ BinIdle
    /\ ConcatIdle
    /\ cacheExists = FALSE
    /\ cache = <<>>
    /\ srcImages = 1..args.n
    /\ inputDirExists = TRUE
    /\ output = {}
    /\ index_used_for_extraction = FALSE
    /\ images_directory = "in"
    /\ i = 0
    /\ success = FALSE
    /\ image = 0
    /\ nread = 0
    /\ saved = {}
    /\ number_of_frames = 0
    /\ images_list_path = <<>>
    /\ cv2_images = <<>>

RECURSIVE SelectPositions(_, _, _)
\* [p for p in 1..Len(f) if Keep(p)], in order: the list comprehension of line 303
SelectPositions(f, p, extension) ==
    IF p > Len(f) THEN <<>>
    ELSE (IF Matches(extension, f[p]) /\ f[p] # "gif" THEN <<p>> ELSE <<>>)
         \o SelectPositions(f, p + 1, extension)

\* lines 303-307: the sorted files the pattern matches, those with ".gif" left
\* out; the assert
SplitGlob ==
    /\ pc = "Idle"
    /\ imgs' = SelectPositions(args.files, 1, args.extension)
    /\ IF Len(imgs') > 0
       THEN /\ pc' = "Splitting"
            /\ NoError
       ELSE Raise("Reading", "No image found")
    /\ UNCHANGED <<binVars, concatVars, xformVars, run, program, args, driverVars, chunks, gifs>>

\* numpy.array_split(ary, Nsections): Neach, extras = divmod(Ntotal, Nsections);
\* section sizes [0] + extras * [Neach + 1] + (Nsections - extras) * [Neach]
SectionSize(Ntotal, Nsections, x) ==
    LET Neach == Ntotal \div Nsections
        extras == Ntotal % Nsections
    IN IF x <= extras THEN Neach + 1 ELSE Neach

RECURSIVE DivPoint(_, _, _)
\* cumsum of the section sizes: the end of section x, 0 for x = 0
DivPoint(Ntotal, Nsections, x) ==
    IF x = 0 THEN 0
    ELSE DivPoint(Ntotal, Nsections, x - 1) + SectionSize(Ntotal, Nsections, x)

\* array_split with sections of Neach elements each: the remainder is lost
ArraySplitFloor(ary, Nsections) ==
    [x \in 1..Nsections |->
        LET Neach == Len(ary) \div Nsections
        IN IF Neach = 0 THEN <<>> ELSE SubSeq(ary, (x - 1) * Neach + 1, x * Neach)]

ArraySplit(ary, Nsections) ==
    [x \in 1..Nsections |->
        LET st == DivPoint(Len(ary), Nsections, x - 1)
            end == DivPoint(Len(ary), Nsections, x)
        IN IF st >= end THEN <<>> ELSE SubSeq(ary, st + 1, end)]

\* line 320: np.array_split(imgs, args.nb_gif)
SplitArray ==
    /\ pc = "Splitting"
    /\ chunks' = ArraySplit(imgs, args.nb_gif)
    /\ pc' = "Encoding"
    /\ NoError
    /\ UNCHANGED <<binVars, concatVars, xformVars, run, program, args, driverVars, imgs, gifs>>

\* lines 320-326: one iteration of the for loop writes gif_<i>_<suffix>.gif with
\* the images of chunk i, in order; line 328 removes nothing without -r
WriteGif ==
    /\ pc = "Encoding"
    /\ Len(gifs) < Len(chunks)
    /\ gifs' = Append(gifs, chunks[Len(gifs) + 1])
    /\ pc' = IF Len(gifs') = Len(chunks) THEN "Done" ELSE "Encoding"
    /\ NoError
    /\ UNCHANGED <<binVars, concatVars, xformVars, run, program, args, driverVars, imgs, chunks>>

SplitNext ==
    \/ SplitGlob
    \/ SplitArray
    \/ WriteGif

SpecSplit == SplitInit /\ [][SplitNext]_vars

\* ===================== src/gif_maker/gif_maker.py: main on a file, lines 269-301
\* -a as argparse hands it over: the default is the string ".*" (line 209)
GifMakerAddImages == {".*", "img.png,0", "img.png,2"}

\* args.add_image.split(',')
SplitComma(a) ==
    IF a = ".*" THEN <<".*">>
    ELSE IF a = "img.png,0" THEN <<"img.png", 0>>
    ELSE <<"img.png", 2>>

VideoToGifInit ==
    /\ program = "gif_maker/gif_maker.py"
    /\ \E n \in 0..MaxFrames, skip \in 1..MaxSkip, a \in GifMakerAddImages,
          o \in {None, "out"} :
          args = [kind |-> "video", n |-> n, skip |-> skip, add_image |-> a,
                  output_path |-> o]
    /\ pc = "Idle"
    /\ err = ""
    /\ errStage = ""
    /\ imgs = <<>>
    /\ chunks = <<>>
    /\ gifs = <<>>
    /\ run = 1
    /\ XformIdle
    /\ BinIdle
    /\ ConcatIdle
    /\ cacheExists = FALSE
    /\ cache = <<>>
    /\ srcImages = {}
    /\ inputDirExists = TRUE
    /\ output = {}
    /\ index_used_for_extraction = FALSE
    /\ images_directory = "in"
    /\ i = 0
    /\ success = FALSE
    /\ image = 0
    /\ nread = 0
    /\ saved = {}
    /\ number_of_frames = 0
    /\ images_list_path = <<>>
    /\ cv2_images = <<>>

\* lines 269-277: the reader and the writer are opened
VideoToGifOpen ==
    /\ pc = "Idle"
    /\ pc' = "Transforming"
    /\ i' = 0
    /\ NoError
    /\ UNCHANGED <<run, program, args, fsVars, success, image, nread, saved,
                   number_of_frames, index_used_for_extraction, images_directory,
                   images_list_path, cv2_images, otherVars, xformVars>>

\* lines 278-283: one iteration of the for loop appends frame i to the writer
\* if i % skip == 0; after the last frame, the test `add_image is not None`
VideoToGifFrame ==
    /\ pc = "Transforming"
    /\ IF i < args.n
       THEN /\ cv2_images' = IF i % args.skip = 0
                             THEN Append(cv2_images, Cur(i)) ELSE cv2_images
            /\ i' = i + 1
            /\ UNCHANGED pc
       ELSE /\ pc' = IF args.add_image # None THEN "TailAppend" ELSE "Encoding"
            /\ UNCHANGED <<i, cv2_images>>
    /\ NoError
    /\ UNCHANGED <<run, program, args, fsVars, success, image, nread, saved,
                   number_of_frames, index_used_for_extraction, images_directory,
                   images_list_path, otherVars, xformVars>>

\* lines 284-293: path_n_times[1] raises IndexError when there is no comma;
\* img is unbound when the reader gave no frame
VideoToGifTail ==
    /\ pc = "TailAppend"
    /\ LET path_n_times == SplitComma(args.add_image)
       IN IF Len(path_n_times) < 2
          THEN /\ Raise("TailAppend", "IndexError")
               /\ UNCHANGED cv2_images
          ELSE IF args.n = 0
          THEN /\ Raise("TailAppend", "NameError")
               /\ UNCHANGED cv2_images
          ELSE /\ cv2_images' = cv2_images \o [x \in 1..path_n_times[2] |-> EndImage]
               /\ pc' = "Encoding"
               /\ NoError
    /\ UNCHANGED <<run, program, args, fsVars, extractVars, index_used_for_extraction,
                   images_directory, images_list_path, otherVars, xformVars>>

\* line 294: writer.close() completes video2gif<suffix>.gif; line 301: return
VideoToGifClose ==
    /\ pc = "Encoding"
    /\ gifs' = <<cv2_images>>
    /\ pc' = "Done"
    /\ NoError
    /\ UNCHANGED <<binVars, concatVars, xformVars, run, program, args, driverVars, imgs, chunks>>

VideoToGifNext ==
    \/ VideoToGifOpen
    \/ VideoToGifFrame
    \/ VideoToGifTail
    \/ VideoToGifClose

SpecVideoToGif == VideoToGifInit /\ [][VideoToGifNext]_vars

\* ============ src/folder_to_binary/folder_to_binary.py: main, lines 62-105
\* bytes are sequences over a two-letter alphabet
Bytes == {"a", "D"}
ByteStrings == UNION {[1..k -> Bytes] : k \in 0..MaxBytes}
FileNames == {<<"a">>, <<"D">>, <<"a", "D">>}
Delimiters == {<<"D">>, <<"D", "D">>}

\* a folder: files [name, content] with distinct names
Folders ==
    {f \in SUBSET [name : FileNames, content : ByteStrings] :
        /\ Cardinality(f) <= MaxFiles
        /\ \A x, y \in f : x.name = y.name => x = y}

\* every order glob() can list the files of folder f in
GlobOrders(f) ==
    {o \in [1..Cardinality(f) -> f] : \A x, y \in DOMAIN o : o[x] = o[y] => x = y}

\* delimiter d occurs in data at place k
OccursAt(data, d, k) ==
    /\ k + Len(d) - 1 <= Len(data)
    /\ SubSeq(data, k, k + Len(d) - 1) = d

RECURSIVE Split(_, _)
\* data.split(d): the pieces between the occurrences of d, found left to right
Split(data, d) ==
    IF \E k \in 1..Len(data) : OccursAt(data, d, k)
    THEN LET k == CHOOSE x \in 1..Len(data) :
                     /\ OccursAt(data, d, x)
                     /\ \A y \in 1..(x - 1) : ~OccursAt(data, d, y)
         IN <<SubSeq(data, 1, k - 1)>>
                \o Split(SubSeq(data, k + Len(d), Len(data)), d)
    ELSE <<data>>

BinaryInit ==
    /\ program = "folder_to_binary/folder_to_binary.py"
    /\ \E f \in Folders, d \in Delimiters :
          args = [kind |-> "dir", folder |-> f, delimiter |-> d]
    /\ pc = "Idle"
    /\ err = ""
    /\ errStage = ""
    /\ imgs = <<>>
    /\ chunks = <<>>
    /\ gifs = <<>>
    /\ run = 1
    /\ XformIdle
    /\ BinIdle
    /\ ConcatIdle
    /\ cacheExists = FALSE
    /\ cache = <<>>
    /\ srcImages = {}
    /\ inputDirExists = TRUE
    /\ output = {}
    /\ index_used_for_extraction = FALSE
    /\ images_directory = "in"
    /\ i = 0
    /\ success = FALSE
    /\ image = 0
    /\ nread = 0
    /\ saved = {}
    /\ number_of_frames = 0
    /\ images_list_path = <<>>
    /\ cv2_images = <<>>

\* lines 62-64: the input is a directory; glob lists its files
PackStart ==
    /\ pc = "Idle"
    /\ files_path' \in GlobOrders(args.folder)
    /\ binary' = <<>>
    /\ pc' = "Packing"
    /\ NoError
    /\ UNCHANGED <<elements, element_name, extracted, concatVars, splitVars, xformVars,
                   run, program, args, driverVars>>

\* lines 66-74: name, delimiter, content, delimiter
PackFile ==
    /\ pc = "Packing"
    /\ files_path # <<>>
    /\ binary' = binary \o Head(files_path).name \o args.delimiter
                        \o Head(files_path).content \o args.delimiter
    /\ files_path' = Tail(files_path)
    /\ NoError
    /\ UNCHANGED <<pc, elements, element_name, extracted, concatVars, splitVars,
                   xformVars, run, program, args, driverVars>>

\* lines 76-82: the .bin is written
PackWrite ==
    /\ pc = "Packing"
    /\ files_path = <<>>
    /\ pc' = "Packed"
    /\ NoError
    /\ UNCHANGED <<binVars, concatVars, splitVars, xformVars, run, program, args, driverVars>>

\* lines 84-96, second call, on the .bin: the output folder is made, the
\* bytes are split at the delimiter and the empty pieces dropped
UnpackRead ==
    /\ pc = "Packed"
    /\ extracted' = {}
    /\ elements' = SelectSeq(Split(binary, args.delimiter), LAMBDA el : el # <<>>)
    /\ i' = 0
    /\ pc' = "Unpacking"
    /\ NoError
    /\ UNCHANGED <<files_path, binary, element_name, concatVars, splitVars, xformVars,
                   run, program, args, fsVars, success, image, nread, saved,
                   number_of_frames, index_used_for_extraction, images_directory,
                   images_list_path, cv2_images>>

\* lines 98-105: an element at an even place is a name, the one after it the
\* content written under that name
UnpackElement ==
    /\ pc = "Unpacking"
    /\ IF i < Len(elements)
       THEN LET el == elements[i + 1]
            IN /\ IF i % 2 = 0
                  THEN /\ element_name' = el
                       /\ UNCHANGED extracted
                  ELSE /\ extracted' = {x \in extracted : x.name # element_name}
                                          \cup {[name |-> element_name, content |-> el]}
                       /\ UNCHANGED element_name
               /\ i' = i + 1
               /\ UNCHANGED pc
       ELSE /\ pc' = "Done"
            /\ UNCHANGED <<i, element_name, extracted>>
    /\ NoError
    /\ UNCHANGED <<files_path, binary, elements, concatVars, splitVars, xformVars,
                   run, program, args, fsVars, success, image, nread, saved,
                   number_of_frames, index_used_for_extraction, images_directory,
                   images_list_path, cv2_images>>

BinaryNext ==
    \/ PackStart
    \/ PackFile
    \/ PackWrite
    \/ UnpackRead
    \/ UnpackElement

SpecBinary == BinaryInit /\ [][BinaryNext]_vars

\* ================= src/video_manager/video_manager.py: main, lines 72-101
\* the input videos, each given by its number of frames
VideoLists == UNION {[1..k -> 0..MaxFrames] : k \in 1..MaxVideos}

ConcatInit ==
    /\ program = "video_manager/video_manager.py"
    /\ \E v \in VideoLists, skip \in 1..MaxSkip :
          args = [kind |-> "videos", videos |-> v, skip |-> skip]
    /\ pc = "Idle"
    /\ err = ""
    /\ errStage = ""
    /\ imgs = <<>>
    /\ chunks = <<>>
    /\ gifs = <<>>
    /\ run = 1
    /\ XformIdle
    /\ BinIdle
    /\ ConcatIdle
    /\ cacheExists = FALSE
    /\ cache = <<>>
    /\ srcImages = {}
    /\ inputDirExists = TRUE
    /\ output = {}
    /\ index_used_for_extraction = FALSE
    /\ images_directory = "in"
    /\ i = 0
    /\ success = FALSE
    /\ image = 0
    /\ nread = 0
    /\ saved = {}
    /\ number_of_frames = 0
    /\ images_list_path = <<>>
    /\ cv2_images = <<>>

concatFrame == <<binVars, splitVars, xformVars, run, program, args, fsVars, success, image,
                 nread, saved, number_of_frames, index_used_for_extraction,
                 images_directory, images_list_path, cv2_images>>

\* the place of the open video in the input list
VideoNumber == Len(args.videos) - Len(videos_path) + 1

\* lines 72-86: the list of videos, the writer
ConcatStart ==
    /\ pc = "Idle"
    /\ videos_path' = args.videos
    /\ out' = <<>>
    /\ pc' = "NextVideo"
    /\ NoError
    /\ UNCHANGED <<cap, i, concatFrame>>

\* lines 88-90: the next video is opened, i = 0
ConcatOpen ==
    /\ pc = "NextVideo"
    /\ videos_path # <<>>
    /\ cap' = 0
    /\ i' = 0
    /\ pc' = "ReadingVideo"
    /\ NoError
    /\ UNCHANGED <<videos_path, out, concatFrame>>

\* lines 91-100: i is incremented, then a frame is read, and written if
\* i % skip == 0; the first failed read leaves the loop and releases the video
ConcatRead ==
    /\ pc = "ReadingVideo"
    /\ i' = i + 1
    /\ LET ret == cap < Head(videos_path)
       IN IF ret
          THEN /\ cap' = cap + 1
               /\ out' = IF i' % args.skip = 0
                         THEN Append(out, [video |-> VideoNumber, frame |-> cap])
                         ELSE out
               /\ UNCHANGED <<pc, videos_path>>
          ELSE /\ videos_path' = Tail(videos_path)
               /\ pc' = "NextVideo"
               /\ UNCHANGED <<cap, out>>
    /\ NoError
    /\ UNCHANGED concatFrame

\* line 101: out.release()
ConcatEnd ==
    /\ pc = "NextVideo"
    /\ videos_path = <<>>
    /\ pc' = "Done"
    /\ NoError
    /\ UNCHANGED <<concatVars, i, concatFrame>>

ConcatNext ==
    \/ ConcatStart
    \/ ConcatOpen
    \/ ConcatRead
    \/ ConcatEnd

SpecConcat == ConcatInit /\ [][ConcatNext]_vars

\* ------------------------------------------------- the runs, with fairness
\* a run of frame_manager.py with any -s and -d, start_idx > end_idx included,
\* or a run of video_manager.py; the interpreter always takes the next step
TerminatesSources ==
    {[kind |-> k, n |-> n, files |-> <<>>] : k \in {"gif", "video"}, n \in 0..MaxFrames}
    \cup {[kind |-> "dir", n |-> 1, files |-> <<"png">>],
          [kind |-> "missing", n |-> 0, files |-> <<>>]}

TerminatesInit ==
    \/ RunInitWith(TerminatesSources, Ranges, 1..MaxSkip, {None, "out"}, RunsAddImages,
                   {".*"}, {FALSE}, {<<>>}, {NoTransform})
    \/ ConcatInit

TerminatesNext ==
    \/ program = "frame_manager/frame_manager.py" /\ Next
    \/ program = "video_manager/video_manager.py" /\ ConcatNext

SpecTerminates ==
    TerminatesInit /\ [][TerminatesNext]_vars /\ WF_vars(TerminatesNext)

\* =========================================================== claims, Spec
IsContainer == args.kind \in {"gif", "video"}

\* the indices the extraction range and the decimation keep, of n frames
KeptIndices ==
    {k \in 0..(args.n - 1) : args.start_idx <= k /\ ~GtEnd(k) /\ k % args.skip = 0}

\* C1: once extract_gif / extract_video has returned, the indices it persisted
\* to the cache are exactly {i : 0 <= i < n, start_idx <= i <= end_idx,
\* i mod skip = 0}.
C1_KeptIndexSet ==
    (IsContainer /\ pc = "Extracted") => saved = KeptIndices

\* the same statement for the gif backend alone, and the video backend with
\* start_idx = 0
C1_KeptIndexSetGif ==
    (args.kind = "gif" /\ pc = "Extracted") => saved = KeptIndices
C1_KeptIndexSetVideoFromZero ==
    (args.kind = "video" /\ args.start_idx = 0 /\ pc = "Extracted")
        => saved = KeptIndices

\* C2: every frame of this run's source handed to the encoder is the source
\* frame whose index its file carries, and the files are taken in strictly
\* increasing index order.
C2_OrderAndContent ==
    \A x \in 1..Len(cv2_images) :
        x <= Len(images_list_path) =>
            /\ cv2_images[x].gen = "cur" => cv2_images[x].frame = images_list_path[x].idx
            /\ x > 1 => images_list_path[x - 1].idx < images_list_path[x].idx

\* the ordering half of C2 alone
C2_StrictlyIncreasing ==
    \A x \in 2..Len(images_list_path) :
        images_list_path[x - 1].idx < images_list_path[x].idx

\* every file of the directory is an image the extension filter matches
AllImagesMatch ==
    \A p \in 1..args.n : args.files[p] = "png" /\ Matches(args.extension, "png")

\* C3: for a directory of k images and explicit 0 <= start_idx <= end_idx < k,
\* the list read is the images at sorted positions start_idx..end_idx,
\* end_idx - start_idx + 1 of them.
C3_InclusiveRange ==
    (/\ args.kind = "dir"
     /\ AllImagesMatch
     /\ args.end_given
     /\ args.end_idx < args.n
     /\ pc \notin {"Idle", "Reading"})
        => /\ Len(images_list_path) = args.end_idx - args.start_idx + 1
           /\ \A x \in 1..Len(images_list_path) :
                 images_list_path[x].idx = args.start_idx + x - 1

\* what the code does there: the slice excludes end_idx
C3_ExclusiveRange ==
    (/\ args.kind = "dir"
     /\ AllImagesMatch
     /\ args.end_given
     /\ args.end_idx < args.n
     /\ pc \notin {"Idle", "Reading"})
        => /\ Len(images_list_path) = args.end_idx - args.start_idx
           /\ \A x \in 1..Len(images_list_path) :
                 images_list_path[x].idx = args.start_idx + x - 1

\* C4: a directory of k >= 1 images run with the default range and no tail
\* image does not error in the Reading stage, and when Done its animation has
\* exactly k frames, image x - 1 at place x.
C4_DefaultRangeDirectory ==
    (/\ args.kind = "dir"
     /\ args.n >= 1
     /\ AllImagesMatch
     /\ ~args.end_given
     /\ args.start_idx = 0
     /\ ~args.add_image.given)
        => /\ ~(pc = "Errored" /\ errStage = "Reading")
           /\ pc = "Done" =>
                 \E o \in output : o.frames = [x \in 1..args.n |-> Cur(x - 1)]

\* C5: without -o the Encoding stage does not fail, and the animation is
\* written to the input directory.
C5_DefaultOutputPath ==
    args.output_path = None
        => /\ ~(pc = "Errored" /\ errStage = "Encoding")
           /\ pc \in {"Cleanup", "Done"} => \E o \in output : o.where = "in"

\* C7: a container run that reaches Done has removed tmp_images/ and all its
\* files unless -k was given; with -k the directory is still there and holds
\* every frame this run extracted.
C7_CacheRemovedUnlessKept ==
    (IsContainer /\ pc = "Done")
        => IF args.keep_extracted_imgs
           THEN /\ cacheExists
                /\ \A k \in saved : k \in DOMAIN cache /\ cache[k].gen = "cur"
           ELSE /\ ~cacheExists
                /\ DOMAIN cache = {}

C7_WitnessRemoved ==
    /\ IsContainer
    /\ pc = "Done"
    /\ ~args.keep_extracted_imgs
    /\ saved # {}

C7_WitnessKept ==
    /\ IsContainer
    /\ pc = "Done"
    /\ args.keep_extracted_imgs
    /\ saved # {}

\* C9: a run that ends in Errored has not executed Cleanup: when it had
\* created the cache, tmp_images/ still exists and holds every frame the run
\* wrote, and nothing of the input directory was removed.
C9_NoCleanupOnError ==
    pc = "Errored"
        => /\ index_used_for_extraction =>
                /\ cacheExists
                /\ \A k \in saved : k \in DOMAIN cache /\ cache[k].gen = "cur"
           /\ inputDirExists

C9_Witness ==
    /\ pc = "Errored"
    /\ errStage = "Encoding"
    /\ index_used_for_extraction
    /\ ~args.keep_extracted_imgs
    /\ Cardinality(saved) >= 2

\* C10: a video with no decodable frame makes the driver raise
\* 'Extraction error.' when extract_video returns; it never gets to Reading.
C10_EmptyVideoRaises ==
    (args.kind = "video" /\ args.n = 0 /\ pc \notin {"Idle", "Extracting", "Extracted"})
        => pc = "Errored" /\ err = "Extraction error."

\* the same for the gif backend, whose extract_gif returns n_frames
C10_EmptyGifRaises ==
    (args.kind = "gif" /\ args.n = 0 /\ pc \notin {"Idle", "Extracting", "Extracted"})
        => pc = "Errored" /\ err = "Extraction error."

\* C8: for a directory source the run creates no temporary cache, deletes no
\* file of the source directory (neither a source image nor the animation it
\* wrote there) and does not remove the directory, whatever -k is.
C8_DirectoryCleanupNoOp ==
    args.kind = "dir"
        => /\ ~index_used_for_extraction
           /\ images_directory = "in"
           /\ srcImages = 1..args.n
           /\ inputDirExists
           /\ pc = "Done" => output # {}

RECURSIVE Flatten(_, _)
\* the gifs written up to place x, one after the other
Flatten(g, x) == IF x = 0 THEN <<>> ELSE Flatten(g, x - 1) \o g[x]

\* C6: with nb_gif = N >= 1 and m images, exactly N gifs are written, the
\* chunks one after the other are the list itself (every image in exactly one
\* gif, contiguous, in order), and two chunk sizes differ by at most 1.
C6_PartitionLaw ==
    (program = "gif_maker/gif_maker.py" /\ pc = "Done")
        => /\ Len(gifs) = args.nb_gif
           /\ Flatten(gifs, Len(gifs)) = imgs
           /\ \A x, y \in 1..Len(gifs) : Len(gifs[x]) - Len(gifs[y]) <= 1

C6_Witness ==
    /\ program = "gif_maker/gif_maker.py"
    /\ pc = "Done"
    /\ Len(imgs) = 3
    /\ args.nb_gif = 2

\* nb_gif larger than the number of images
C6_WitnessMoreGifsThanImages ==
    /\ program = "gif_maker/gif_maker.py"
    /\ pc = "Done"
    /\ Len(imgs) = 2
    /\ args.nb_gif = 5

\* the directory is not empty and the extension filter matches none of its files
NoFileMatches ==
    /\ args.n >= 1
    /\ \A p \in 1..args.n : ~Matches(args.extension, args.files[p])

\* C11: a non-empty directory in which no file matches the extension filter
\* ends the run with the no-frames-match error, whatever start_idx and end_idx
\* are; no frame is transformed and no animation is written.
C11_NoFramesMatchError ==
    (/\ program = "frame_manager/frame_manager.py"
     /\ args.kind = "dir"
     /\ NoFileMatches
     /\ pc \notin {"Idle", "Reading"})
        => /\ pc = "Errored"
           /\ err = "Not file found"
           /\ cv2_images = <<>>
           /\ output = {}

\* the same with -d given: the slice does not raise
C11_NoFramesMatchErrorExplicitEnd ==
    (/\ program = "frame_manager/frame_manager.py"
     /\ args.kind = "dir"
     /\ args.end_given
     /\ NoFileMatches
     /\ pc \notin {"Idle", "Reading"})
        => /\ pc = "Errored"
           /\ err = "Not file found"
           /\ cv2_images = <<>>
           /\ output = {}

\* gif_maker.py: the assert of line 306
C11_NoImageFoundSplit ==
    (/\ program = "gif_maker/gif_maker.py"
     /\ args.n >= 1
     /\ \A p \in 1..args.n : ~Matches(args.extension, args.files[p]) \/ args.files[p] = "gif"
     /\ pc # "Idle")
        => /\ pc = "Errored"
           /\ err = "No image found"
           /\ gifs = <<>>

\* C12: a run configured with skip <= 0 ends in Errored and never writes an
\* animation, whatever the source is.
C12_NonPositiveSkipRejected ==
    (program = "frame_manager/frame_manager.py" /\ args.skip <= 0)
        => /\ pc # "Done"
           /\ output = {}

\* what the code does: only skip = 0 on a container with a frame in range stops
\* the run, at the first i % skip
C12_ZeroSkipStopsExtraction ==
    (/\ program = "frame_manager/frame_manager.py"
     /\ args.skip = 0
     /\ IsContainer
     /\ \E k \in 0..(args.n - 1) : args.start_idx <= k /\ ~GtEnd(k)
     /\ args.kind = "video" => args.start_idx = 0
     /\ pc \notin {"Idle", "Extracting"})
        => pc = "Errored" /\ err = "ZeroDivisionError" /\ saved = {}

\* the caller gave -a
AddImageSupplied ==
    IF program = "gif_maker/gif_maker.py"
    THEN args.add_image # ".*"
    ELSE args.add_image.given

\* the number of copies asked for with -a
AddImageTimes ==
    IF program = "gif_maker/gif_maker.py"
    THEN SplitComma(args.add_image)[2]
    ELSE args.add_image.times

\* the frames of s that are no copy of the end image
SourceFrames(s) == SelectSeq(s, LAMBDA f : f.gen # "end")

\* the frames the encoder has been given when the run is Done
Encoded ==
    IF program = "gif_maker/gif_maker.py" THEN gifs[1] ELSE cv2_images

\* C13: TailAppend is entered only if -a was supplied; a finished run without
\* -a has given the encoder the kept frames and nothing else, a finished run
\* with -a img,times the kept frames followed by exactly `times` end images.
C13_TailOnlyIfRequested ==
    /\ pc = "TailAppend" => AddImageSupplied
    /\ pc = "Done" =>
          LET kept == SourceFrames(Encoded)
              tail == IF AddImageSupplied THEN AddImageTimes ELSE 0
          IN Encoded = kept \o [x \in 1..tail |-> EndImage]

C13_WitnessDriver ==
    /\ program = "frame_manager/frame_manager.py"
    /\ pc = "Done"
    /\ args.add_image.given
    /\ args.add_image.times = 2
    /\ Len(cv2_images) >= 4

\* gif_maker.py: a run without -a never gets past the tail block
C13_VideoToGifNeedsAddImage ==
    (program = "gif_maker/gif_maker.py" /\ args.kind = "video" /\ pc = "Done")
        => args.add_image # ".*"

\* C14: packing a folder and extracting the .bin gives the folder back, the
\* same names with the same content, for every folder, empty files and
\* delimiters in names or content included.
C14_RoundTrip ==
    (program = "folder_to_binary/folder_to_binary.py" /\ pc = "Done")
        => extracted = args.folder

\* no delimiter letter in a name or a content, and no empty file
PlainFolder ==
    \A f \in args.folder :
        /\ f.content # <<>>
        /\ \A k \in DOMAIN f.name : f.name[k] # "D"
        /\ \A k \in DOMAIN f.content : f.content[k] # "D"

\* the round trip does hold for folders of non-empty, delimiter-free files
C14_RoundTripPlainFolder ==
    (program = "folder_to_binary/folder_to_binary.py" /\ pc = "Done" /\ PlainFolder)
        => extracted = args.folder

C14_WitnessPlainFolder ==
    /\ program = "folder_to_binary/folder_to_binary.py"
    /\ pc = "Done"
    /\ PlainFolder
    /\ Cardinality(args.folder) = 1
    /\ extracted = args.folder

\* ================================================= claims, SpecTransform
Rank(step) ==
    IF step = "resize" THEN 1
    ELSE IF step = "overlay" THEN 2
    ELSE IF step = "rotate" THEN 3
    ELSE 4

\* step st has run on the frame at position pos of the list read
Ran(pos, st) == \E k \in DOMAIN steps : steps[k] = [frame |-> pos, step |-> st]

\* C15: the steps of a frame run in the order resize, overlay, rotate, pad;
\* overlay only if an overlay image is configured and the frame is eligible,
\* rotate only if the angle is not 0, pad only if a padding is given; the
\* steps of frame k all come after every step of frame k - 1.
C15_StepOrder ==
    /\ \A k \in 1..(Len(steps) - 1) :
          \/ /\ steps[k + 1].frame = steps[k].frame
             /\ Rank(steps[k].step) < Rank(steps[k + 1].step)
          \/ /\ steps[k + 1].frame = steps[k].frame + 1
             /\ steps[k + 1].step = "resize"
    /\ steps # <<>> => steps[1] = [frame |-> 0, step |-> "resize"]
    /\ \A pos \in 0..(Len(cv2_images) - 1) :
          pos < Len(images_list_path) =>
             /\ Ran(pos, "resize")
             /\ Ran(pos, "overlay") =>
                   args.overlap /\ OverlayEligible(pos, images_list_path[pos + 1])
             /\ Ran(pos, "rotate") <=> args.rotate_angle # 0
             /\ Ran(pos, "pad") <=> args.padding

C15_Witness ==
    /\ pc = "Encoding"
    /\ args.overlap
    /\ args.rotate_angle # 0
    /\ args.padding
    /\ Len(steps) >= 8
    /\ Ran(1, "overlay") /\ Ran(1, "rotate") /\ Ran(1, "pad")

C16_WitnessLateIndex ==
    /\ pc = "Encoding"
    /\ IsContainer
    /\ images_list_path[1].idx >= OverlayCutoff
    /\ Ran(0, "overlay")

\* C17: the frames given to the output all have the same (height, width), that
\* of the first frame processed; the writer's frame size and the size of the
\* end image are taken from the first frame.
C17_SizeOfFirstFrame ==
    (program = "frame_manager/frame_manager.py"
        /\ pc \in {"TailAppend", "Encoding", "Cleanup", "Done"})
        => /\ \A k \in DOMAIN shapes : shapes[k] = shapes[1]
           /\ img_shape = shapes[1]

\* what the code does: the size is that of the last frame of the loop, the end
\* images get that size, and the frames of a container all have one size
C17_SizeOfLastFrame ==
    (program = "frame_manager/frame_manager.py"
        /\ pc \in {"TailAppend", "Encoding", "Cleanup", "Done"})
        => /\ img_shape = shapes[Len(images_list_path)]
           /\ \A k \in DOMAIN shapes : k > Len(images_list_path) => shapes[k] = img_shape
           /\ IsContainer => \A k \in DOMAIN shapes : shapes[k] = img_shape

\* ==================================================== claims, SpecConcat
RECURSIVE ConcatKept(_, _)
\* the frames [video, frame] of videos v..last with (frame + off) mod skip = 0,
\* in order
ConcatKept(v, off) ==
    IF v > Len(args.videos) THEN <<>>
    ELSE LET idx == SortedSeq({j \in 0..(args.videos[v] - 1) : (j + off) % args.skip = 0})
         IN [x \in 1..Len(idx) |-> [video |-> v, frame |-> idx[x]]]
                \o ConcatKept(v + 1, off)

\* C18: of each input video, frames counted from 0, frame i is written iff
\* i mod skip = 0, in the order of the input videos; the first frame of every
\* video is kept.
C18_KeepsMultiplesOfSkip ==
    (program = "video_manager/video_manager.py" /\ pc = "Done")
        => out = ConcatKept(1, 0)

\* what the code does: frame i is written iff (i + 1) mod skip = 0
C18_KeepsEverySkipth ==
    (program = "video_manager/video_manager.py" /\ pc = "Done")
        => out = ConcatKept(1, 1)

C18_WitnessFirstFrameDropped ==
    /\ program = "video_manager/video_manager.py"
    /\ pc = "Done"
    /\ args.skip = 2
    /\ args.videos = <<1, 3>>
    /\ out = <<[video |-> 2, frame |-> 1]>>

\* ======================================================= claims, SpecDrivers
\* C19: Extracting is entered, and tmp_images/ created by the run, only if the
\* input path is an existing file; a path that is neither a file nor a
\* directory goes from Idle to Errored (source not found): no cache directory
\* is created, no frame is read and no output is written.
C19_ExtractingOnlyForFiles ==
    /\ (pc = "Extracting" \/ index_used_for_extraction) => IsContainer
    /\ args.kind = "missing" =>
          /\ pc \in {"Idle", "Errored"}
          /\ pc = "Errored" => errStage = "Idle"
          /\ ~index_used_for_extraction
          /\ saved = {}
          /\ images_list_path = <<>>
          /\ cv2_images = <<>>
          /\ output = {}

C19_WitnessNewDriver ==
    /\ program = "frame_manager/frame_manager.py"
    /\ args.kind = "missing"
    /\ pc = "Errored"
    /\ err = "does not exist."

\* gif_maker/frame_manager.py writes an animation for a path that does not exist
C19_WitnessOldDriverWrites ==
    /\ program = "gif_maker/frame_manager.py"
    /\ args.kind = "missing"
    /\ pc = "Done"
    /\ output # {}

\* ========================================================= claims, SpecRuns
\* C20: whatever runs came before in the input directory, the list a container
\* run reads in Reading holds exactly the frames its own Extracting wrote: no
\* file an earlier run left in tmp_images/ is read or encoded.
C20_OnlyOwnFramesRead ==
    (program = "frame_manager/frame_manager.py" /\ IsContainer
        /\ pc \in {"Transforming", "TailAppend", "Encoding", "Cleanup", "Done"})
        => /\ {images_list_path[k].idx : k \in DOMAIN images_list_path} = saved
           /\ \A k \in DOMAIN images_list_path : images_list_path[k].data.gen = "cur"
           /\ \A k \in DOMAIN cv2_images : cv2_images[k].gen # "old"

\* a second run has encoded a frame the first run left
C20_WitnessStaleFrameEncoded ==
    /\ run = 2
    /\ IsContainer
    /\ pc = "Done"
    /\ \E o \in output : \E k \in DOMAIN o.frames : o.frames[k].gen = "old"

\* the first run of a directory, which starts without tmp_images/, reads its own
\* frames only
C20_FirstRunReadsOwnFrames ==
    (run = 1 /\ IsContainer
        /\ pc \in {"Transforming", "TailAppend", "Encoding", "Cleanup", "Done"})
        => /\ {images_list_path[k].idx : k \in DOMAIN images_list_path} = saved
           /\ \A k \in DOMAIN images_list_path : images_list_path[k].data.gen = "cur"

\* ============================================ claims, Spec: extract_video
\* -s and -d at their defaults: every frame of the source is in the range
FullRange == args.start_idx = 0 /\ ~args.end_given

\* C21: 'Extraction error.' is raised for an empty source only: a video with
\* n >= 1 decodable frames, n = 1 included, read over the full range never
\* makes the driver raise it.
C21_NoExtractionErrorWithFrames ==
    (program = "frame_manager/frame_manager.py" /\ args.kind = "video"
        /\ args.n >= 1 /\ FullRange)
        => err # "Extraction error."

\* the value extract_video returns is the index of the last frame, n - 1, so
\* the error is raised for n = 1 and for no video of two frames or more
C21_NoExtractionErrorWithTwoFrames ==
    (program = "frame_manager/frame_manager.py" /\ args.kind = "video"
        /\ args.n >= 2 /\ FullRange)
        => /\ err # "Extraction error."
           /\ pc \notin {"Idle", "Extracting"} => number_of_frames = args.n - 1

C21_WitnessOneFrameVideo ==
    /\ program = "frame_manager/frame_manager.py"
    /\ args.kind = "video"
    /\ args.n = 1
    /\ FullRange
    /\ saved = {0}
    /\ pc = "Errored"
    /\ err = "Extraction error."

\* ==================================================== claims, SpecTerminates
\* C22: every run terminates: for a finite video and any start_idx, end_idx
\* and skip >= 1 the loop of extract_video exits, at the end of the stream or
\* once the index is above end_idx, and the driver reaches Done or Errored;
\* video_manager.py leaves the loop of every video and reaches Done.
C22_Terminates == <>(pc \in {"Done", "Errored"})

\* the extraction loop is left
C22_ExtractionLoopExits == (pc = "Extracting") ~> (pc # "Extracting")

\* the loop over the frames of a video is left
C22_ConcatLoopExits == (pc = "ReadingVideo") ~> (pc = "NextVideo")

\* a video run that went through `continue` and the reads, to the end
C22_Witness ==
    /\ program = "frame_manager/frame_manager.py"
    /\ args.kind = "video"
    /\ args.n >= 2
    /\ args.start_idx >= 2
    /\ pc = "Done"
    /\ saved # {}

C22_WitnessStartAboveEnd ==
    /\ program = "frame_manager/frame_manager.py"
    /\ args.kind = "video"
    /\ args.end_given
    /\ args.start_idx > args.end_idx
    /\ pc = "Errored"
    /\ errStage = "Reading"

C22_WitnessConcat ==
    /\ program = "video_manager/video_manager.py"
    /\ pc = "Done"
    /\ Len(args.videos) = 2
    /\ out # <<>>

====
